---- MODULE Spec2Model ----
(***************************************************************************)
(* Model of interledger-stream's Ethereum payout module (ethereum.rs):     *)
(* the destination decoder, the payment-id generator, the call-data        *)
(* encoder, the JSON-RPC sequence of execute_payout, and the process-wide   *)
(* PAYOUT_SERVICE registry with init_payout_service / maybe_execute_payout. *)
(*                                                                         *)
(* Strings are sequences of one-character strings, so that split, contains, *)
(* starts_with, trim_start_matches and the integer parsers are computed    *)
(* character by character, as the Rust code computes them.                  *)
(***************************************************************************)
EXTENDS Integers, Sequences, FiniteSets, TLC

VARIABLES
    env,            \* the process environment: variable name -> value or NoVar
    envChanges,     \* how many times the environment was changed so far
    PAYOUT_SERVICE, \* the OnceLock<Option<EthereumPayoutService>>
    inits,          \* init_payout_service invocations: position and locals
    setBy,          \* history: which invocation's set() filled the OnceLock
    tasks,          \* maybe_execute_payout invocations: position and locals
    node,           \* the JSON-RPC node and the treasury ledger behind it
    decIn,          \* decoder harness: the segments of the input destination
    decOut          \* decoder harness: what EthereumDestination::parse returned

vars == <<env, envChanges, PAYOUT_SERVICE, inits, setBy, tasks, node, decIn, decOut>>

(***************************************************************************)
(* Bounds of the model.                                                    *)
(***************************************************************************)
NumTasks == 2
NumInits == 2
MaxEnvChanges == 1
MaxPrefix == 2
MaxTrailer == 3

(***************************************************************************)
(* String helpers (Rust str methods).                                      *)
(***************************************************************************)
Rep(c, n) == [i \in 1..n |-> c]

\* Printable ASCII, 0x20..0x7E, in code order (the double quote, the backslash
\* and the backtick are written as tokens).
Ascii == <<" ","!","DQUOTE","#","$","%","&","'","(",")","*","+",",","-",".","/","0","1","2","3","4","5","6","7","8","9",":",";","<","=",">","?","@","A","B","C","D","E","F","G","H","I","J","K","L","M","N","O","P","Q","R","S","T","U","V","W","X","Y","Z","[","BACKSLASH","]","^","_","BACKTICK","a","b","c","d","e","f","g","h","i","j","k","l","m","n","o","p","q","r","s","t","u","v","w","x","y","z","{","|","}","~">>

\* One character outside ASCII (e with acute accent), two bytes in UTF-8.
NonAscii == "U+00E9"

\* UTF-8 width of a character: str::len() counts bytes, format padding counts chars.
Utf8Width(c) == IF c = NonAscii THEN 2 ELSE 1

RECURSIVE ByteLen(_)
ByteLen(s) == IF s = <<>> THEN 0 ELSE Utf8Width(Head(s)) + ByteLen(Tail(s))

starts_with(s, p) == Len(s) >= Len(p) /\ SubSeq(s, 1, Len(p)) = p

contains(s, p) == \E i \in 0..(Len(s) - Len(p)) : SubSeq(s, i + 1, i + Len(p)) = p

RECURSIVE trim_start_matches(_, _)
trim_start_matches(s, p) ==
    IF p # <<>> /\ starts_with(s, p)
    THEN trim_start_matches(SubSeq(s, Len(p) + 1, Len(s)), p)
    ELSE s

\* 1-based index of the first element equal to x, 0 when there is none.
FirstIdx(s, x) ==
    IF \E i \in 1..Len(s) : s[i] = x
    THEN CHOOSE i \in 1..Len(s) : s[i] = x /\ \A j \in 1..(i - 1) : s[j] # x
    ELSE 0

RECURSIVE split(_, _)
split(s, sep) ==
    LET k == FirstIdx(s, sep)
    IN  IF k = 0 THEN <<s>>
        ELSE <<SubSeq(s, 1, k - 1)>> \o split(SubSeq(s, k + 1, Len(s)), sep)

RECURSIVE Join(_, _)
Join(segs, sep) ==
    IF segs = <<>> THEN <<>>
    ELSE IF Len(segs) = 1 THEN segs[1]
    ELSE segs[1] \o <<sep>> \o Join(Tail(segs), sep)

\* Iterator::position: 0-based index of the first match, NoIdx for None.
NoIdx == -1
position(parts, x) == FirstIdx(parts, x) - 1

\* 0-based indexing, as in the source.
At(parts, i) == parts[i + 1]

\* Index of c in Ascii, 0 when c is not ASCII; its code is this plus 31.
AsciiIdx(c) ==
    IF \E i \in 1..Len(Ascii) : Ascii[i] = c
    THEN CHOOSE i \in 1..Len(Ascii) : Ascii[i] = c
    ELSE 0

\* The capitals sit at 34..59 of Ascii, the small letters 32 places later.
LowerOf(c) ==
    LET k == AsciiIdx(c)
    IN  IF k >= 34 /\ k <= 59 THEN Ascii[k + 32] ELSE c
to_lowercase(s) == [i \in 1..Len(s) |-> LowerOf(s[i])]

(***************************************************************************)
(* Integer parsing: u64::from_str and u64::from_str_radix(_, 16).           *)
(* A parsed u64 is kept as its canonical numeral (no sign, no leading       *)
(* zeros), which is exact over the whole 64-bit range.                      *)
(***************************************************************************)
DecDigits == {"0", "1", "2", "3", "4", "5", "6", "7", "8", "9"}
HexDigits == DecDigits \cup {"a", "b", "c", "d", "e", "f", "A", "B", "C", "D", "E", "F"}

DigitVal(c) ==
    CASE c = "0" -> 0 [] c = "1" -> 1 [] c = "2" -> 2 [] c = "3" -> 3
      [] c = "4" -> 4 [] c = "5" -> 5 [] c = "6" -> 6 [] c = "7" -> 7
      [] c = "8" -> 8 [] c = "9" -> 9
      [] c \in {"a", "A"} -> 10 [] c \in {"b", "B"} -> 11
      [] c \in {"c", "C"} -> 12 [] c \in {"d", "D"} -> 13
      [] c \in {"e", "E"} -> 14 [] c \in {"f", "F"} -> 15

RECURSIVE StripZeros(_)
StripZeros(s) ==
    IF Len(s) > 1 /\ Head(s) = "0" THEN StripZeros(Tail(s)) ELSE s

\* u64::MAX as a decimal and as a hexadecimal numeral.
U64MaxDec == <<"1","8","4","4","6","7","4","4","0","7","3","7","0","9","5","5","1","6","1","5">>
U64MaxHex == Rep("f", 16)

\* a > b for numerals without leading zeros
NumeralGt(a, b) ==
    \/ Len(a) > Len(b)
    \/ /\ Len(a) = Len(b)
       /\ \E i \in 1..Len(a) :
            /\ DigitVal(a[i]) > DigitVal(b[i])
            /\ \A j \in 1..(i - 1) : DigitVal(a[j]) = DigitVal(b[j])

ParseErr == [ok |-> FALSE]

\* <u64 as FromStr>::from_str / from_str_radix: an optional '+', then at least
\* one digit of the radix; Err on an empty string, a bad digit or overflow.
parse_radix(s, digits, max) ==
    LET body == IF s # <<>> /\ Head(s) = "+" THEN Tail(s) ELSE s
    IN  IF body = <<>> THEN ParseErr
        ELSE IF \E i \in 1..Len(body) : body[i] \notin digits THEN ParseErr
        ELSE IF NumeralGt(StripZeros(to_lowercase(body)), max) THEN ParseErr
        ELSE [ok |-> TRUE, val |-> StripZeros(to_lowercase(body))]

parse_u64(s) == parse_radix(s, DecDigits, U64MaxDec)

from_str_radix16(s) == parse_radix(s, HexDigits, U64MaxHex)

(***************************************************************************)
(* EthereumDestination::parse                                              *)
(***************************************************************************)
ETH == <<"e","t","h">>
DOT == "."
PFX0x == <<"0","x">>
MinParts == 7
RecipientLen == 42

None == [some |-> FALSE]

\* Lines 40-57: the instruction built from the three segments after the marker.
build_instruction(chain_seg, asset_seg, recipient_str) ==
    LET chain_id == parse_u64(chain_seg)
    IN  IF ~chain_id.ok THEN None
        ELSE IF ~starts_with(recipient_str, PFX0x)
                \/ ByteLen(recipient_str) # RecipientLen THEN None
        ELSE [some |-> TRUE,
              chain_id |-> chain_id.val,
              asset_code |-> asset_seg,
              recipient |-> recipient_str]

\* Mutant: the length check one segment too lenient.
too_short_off_by_one(parts) == Len(parts) < MinParts - 1

too_short(parts) == Len(parts) < MinParts

\* Mutant: the last marker segment instead of the first (rposition).
find_marker_last(parts) ==
    IF \E i \in 1..Len(parts) : parts[i] = ETH
    THEN (CHOOSE i \in 1..Len(parts) :
            parts[i] = ETH /\ \A j \in (i + 1)..Len(parts) : parts[j] # ETH) - 1
    ELSE NoIdx

find_marker(parts) == position(parts, ETH)

parse(destination) ==
    LET parts == split(destination, DOT)
        eth_idx == find_marker(parts)
    IN  IF too_short(parts) THEN None
        ELSE IF eth_idx = NoIdx THEN None
        ELSE IF eth_idx + 3 >= Len(parts) THEN None
        ELSE build_instruction(At(parts, eth_idx + 1),
                               At(parts, eth_idx + 2),
                               At(parts, eth_idx + 3))

(***************************************************************************)
(* EthereumPayoutService::generate_payment_id                              *)
(***************************************************************************)
\* str::as_bytes: the UTF-8 bytes of a string, as integers.
as_bytes(s) ==
    LET B(c) == IF c = NonAscii THEN <<195, 169>> ELSE <<AsciiIdx(c) + 31>>
        F[i \in 0..Len(s)] == IF i = 0 THEN <<>> ELSE F[i - 1] \o B(s[i])
    IN  F[Len(s)]

\* u64::to_be_bytes: 8 bytes, most significant first.
RECURSIVE be_bytes(_, _)
be_bytes(n, width) ==
    IF width = 0 THEN <<>> ELSE be_bytes(n \div 256, width - 1) \o <<n % 256>>

SeqBytes == 8
\* Mutant: only the low byte of the sequence number is appended.
to_low_byte(sequence) == <<sequence % 256>>

to_be_bytes(sequence) == be_bytes(sequence, SeqBytes)

\* ring::digest::digest(&SHA256, data): the digest is kept as the byte string it
\* was computed from (SHA-256 taken as collision-free); it is 32 bytes long.
DigestBytes == 32
digest_sha256(data) == [sha256 |-> data]

generate_payment_id(destination, sequence) ==
    digest_sha256(as_bytes(destination) \o to_be_bytes(sequence))

(***************************************************************************)
(* Call-data encoding in execute_payout                                    *)
(***************************************************************************)
HexChars == <<"0","1","2","3","4","5","6","7","8","9","a","b","c","d","e","f">>

\* format!("{:x}", n)
RECURSIVE lower_hex(_)
lower_hex(n) ==
    IF n < 16 THEN <<HexChars[n + 1]>>
    ELSE lower_hex(n \div 16) \o <<HexChars[(n % 16) + 1]>>

\* format!("{:0>w}", s): pads on the left to w characters, never truncates.
pad_left_zero(s, w) == IF Len(s) >= w THEN s ELSE Rep("0", w - Len(s)) \o s

function_selector == <<"b","7","7","2","7","6","d","8">>
SlotWidth == 64

\* The four pieces of `data`, in order; hex::encode(&payment_id) is kept as the
\* digest it encodes (2 * DigestBytes hex characters).
encode_call_data(payment_id, recipient, amount) ==
    [selector |-> function_selector,
     payment_id |-> payment_id,
     recipient_slot |-> pad_left_zero(trim_start_matches(recipient, PFX0x), SlotWidth),
     amount_slot |-> pad_left_zero(lower_hex(amount), SlotWidth)]

\* Characters of the formatted data string.
DataLen(data) ==
    Len(data.selector) + 2 * DigestBytes + Len(data.recipient_slot) + Len(data.amount_slot)

(***************************************************************************)
(* derive_address_from_key, EthereumPayoutConfig::from_env,                *)
(* EthereumPayoutService::new                                              *)
(***************************************************************************)
Ok(v) == [ok |-> TRUE, val |-> v]
Err(e) == [ok |-> FALSE, err |-> e]

Key0 == <<"a","c","0","9","7","4","b","e","c","3","9","a","1","7","e","3","6","b","a","4","a","6","b","4","d","2","3","8","f","f","9","4","4","b","a","c","b","4","7","8","c","b","e","d","5","e","f","c","a","e","7","8","4","d","7","b","f","4","f","2","f","f","8","0">>
Addr0 == <<"0","x","f","3","9","F","d","6","e","5","1","a","a","d","8","8","F","6","F","4","c","e","6","a","B","8","8","2","7","2","7","9","c","f","f","F","b","9","2","2","6","6">>
Key1 == <<"5","9","c","6","9","9","5","e","9","9","8","f","9","7","a","5","a","0","0","4","4","9","6","6","f","0","9","4","5","3","8","9","d","c","9","e","8","6","d","a","e","8","8","c","7","a","8","4","1","2","f","4","6","0","3","b","6","b","7","8","6","9","0","d">>
Addr1 == <<"0","x","7","0","9","9","7","9","7","0","C","5","1","8","1","2","d","c","3","A","0","1","0","C","7","d","0","1","b","5","0","e","0","d","1","7","d","c","7","9","C","8">>
Key2 == <<"5","d","e","4","1","1","1","a","f","a","1","a","4","b","9","4","9","0","8","f","8","3","1","0","3","e","b","1","f","1","7","0","6","3","6","7","c","2","e","6","8","c","a","8","7","0","f","c","3","f","b","9","a","8","0","4","c","d","a","b","3","6","5","a">>
Addr2 == <<"0","x","3","C","4","4","C","d","D","d","B","6","a","9","0","0","f","a","2","b","5","8","5","d","d","2","9","9","e","0","3","d","1","2","F","A","4","2","9","3","B","C">>

known_keys == <<<<Key0, Addr0>>, <<Key1, Addr1>>, <<Key2, Addr2>>>>

\* Mutant: an unknown key is an error instead of the default account.
derive_address_strict(private_key) ==
    LET key == to_lowercase(trim_start_matches(private_key, PFX0x))
        hit == {i \in 1..Len(known_keys) : known_keys[i][1] = key}
    IN  IF hit # {}
        THEN Ok(known_keys[CHOOSE i \in hit : \A j \in hit : i <= j][2])
        ELSE Err("unknown private key")

derive_address_from_key(private_key) ==
    LET key == to_lowercase(trim_start_matches(private_key, PFX0x))
        hit == {i \in 1..Len(known_keys) : known_keys[i][1] = key}
    IN  IF hit # {}
        THEN Ok(known_keys[CHOOSE i \in hit : \A j \in hit : i <= j][2])
        ELSE Ok(Addr0)

\* An environment variable: unset, or set to a string.
NoVar == [set |-> FALSE]
Var(s) == [set |-> TRUE, val |-> s]

\* Mutant: a missing TREASURY_ADDRESS defaults to the empty string.
from_env_default_treasury(e) ==
    IF ~e.ETHEREUM_RPC_URL.set THEN None
    ELSE IF ~e.OPERATOR_PRIVATE_KEY.set THEN None
    ELSE IF ~e.CHAIN_ID.set THEN None
    ELSE IF ~parse_u64(e.CHAIN_ID.val).ok THEN None
    ELSE [some |-> TRUE,
          rpc_url |-> e.ETHEREUM_RPC_URL.val,
          treasury_address |-> IF e.TREASURY_ADDRESS.set THEN e.TREASURY_ADDRESS.val ELSE <<>>,
          operator_private_key |-> e.OPERATOR_PRIVATE_KEY.val,
          expected_chain_id |-> parse_u64(e.CHAIN_ID.val).val]

from_env(e) ==
    IF ~e.ETHEREUM_RPC_URL.set THEN None
    ELSE IF ~e.TREASURY_ADDRESS.set THEN None
    ELSE IF ~e.OPERATOR_PRIVATE_KEY.set THEN None
    ELSE IF ~e.CHAIN_ID.set THEN None
    ELSE IF ~parse_u64(e.CHAIN_ID.val).ok THEN None
    ELSE [some |-> TRUE,
          rpc_url |-> e.ETHEREUM_RPC_URL.val,
          treasury_address |-> e.TREASURY_ADDRESS.val,
          operator_private_key |-> e.OPERATOR_PRIVATE_KEY.val,
          expected_chain_id |-> parse_u64(e.CHAIN_ID.val).val]

\* EthereumPayoutService::new(config)
new_service(config) ==
    LET operator_address == derive_address_from_key(config.operator_private_key)
    IN  IF ~operator_address.ok THEN Err("derive_address_from_key")
        ELSE Ok([config |-> config, operator_address |-> operator_address.val])

\* The value init_payout_service hands to PAYOUT_SERVICE.set: Some(service) or None.
init_value(e) ==
    LET config == from_env(e)
    IN  IF config.some
        THEN LET r == new_service(config)
             IN  IF r.ok THEN [some |-> TRUE, service |-> r.val] ELSE None
        ELSE None

\* OnceLock: empty, or holding the value of the first set().
Unset == [init |-> FALSE]
\* Mutant: a plain store, the last set() wins.
once_set_overwrite(lock, value) == [init |-> TRUE, value |-> value]

once_set(lock, value) == IF lock.init THEN lock ELSE [init |-> TRUE, value |-> value]

\* The registry state of the spec, read off the OnceLock.
RegistryState(lock) ==
    IF ~lock.init THEN "Uninitialized"
    ELSE IF lock.value.some THEN "Ready" ELSE "Disabled"


(***************************************************************************)
(* JSON-RPC responses and their interpretation                             *)
(* (get_nonce, get_gas_price, send_raw_transaction).                        *)
(***************************************************************************)
JNull == [is_str |-> FALSE]
JStr(s) == [is_str |-> TRUE, str |-> s]
NoError == [present |-> FALSE]
ErrorObj(message) == [present |-> TRUE, message |-> message]

\* send() or json() failed: connection refused, timeout, body that is not JSON.
Transport == [http |-> FALSE]
Json(result, error) == [http |-> TRUE, result |-> result, error |-> error]

\* Value of a canonical hexadecimal numeral (the model's replies are small).
RECURSIVE NumeralVal(_)
NumeralVal(num) ==
    IF num = <<>> THEN 0
    ELSE 16 * NumeralVal(SubSeq(num, 1, Len(num) - 1)) + DigitVal(num[Len(num)])

\* Mutant: a result that is absent or not hex counts as zero.
hex_result_lenient(response, what) ==
    IF ~response.http THEN Err("transport")
    ELSE IF ~response.result.is_str THEN Ok(0)
    ELSE LET parsed == from_str_radix16(trim_start_matches(response.result.str, PFX0x))
         IN  IF ~parsed.ok THEN Ok(0) ELSE Ok(NumeralVal(parsed.val))

\* Lines 195-199 and 217-221: response["result"] as a hex string, parsed.
hex_result(response, what) ==
    IF ~response.http THEN Err("transport")
    ELSE IF ~response.result.is_str THEN Err(what)
    ELSE LET parsed == from_str_radix16(trim_start_matches(response.result.str, PFX0x))
         IN  IF ~parsed.ok THEN Err("ParseIntError") ELSE Ok(NumeralVal(parsed.val))

get_nonce(response) == hex_result(response, "No result in nonce response")

get_gas_price(response) == hex_result(response, "No result in gas price response")

AlreadyProcessedText == <<"a","l","r","e","a","d","y"," ","p","r","o","c","e","s","s","e","d">>
RevertText == <<"r","e","v","e","r","t">>
UnknownErrorText == <<"U","n","k","n","o","w","n"," ","e","r","r","o","r">>
already_processed == <<"a","l","r","e","a","d","y","_","p","r","o","c","e","s","s","e","d">>

\* Mutant: only the exact "already processed" text counts.
is_idempotent_error_strict(error_msg) == contains(error_msg, AlreadyProcessedText)

\* Line 258: the messages taken for an idempotent repeat.
is_idempotent_error(error_msg) ==
    contains(error_msg, AlreadyProcessedText) \/ contains(error_msg, RevertText)

\* Lines 255-270: what send_raw_transaction makes of the submit response.
send_raw_transaction(response) ==
    IF ~response.http THEN Err("transport")
    ELSE IF response.error.present
    THEN LET error_msg == IF response.error.message.is_str
                          THEN response.error.message.str
                          ELSE UnknownErrorText
         IN  IF is_idempotent_error(error_msg)
             THEN Ok(already_processed)
             ELSE Err("RPC error")
    ELSE IF ~response.result.is_str THEN Err("No transaction hash in response")
    ELSE Ok(response.result.str)

(***************************************************************************)
(* maybe_execute_payout: what decides whether execute_payout runs, and     *)
(* what the caller gets back.                                              *)
(***************************************************************************)
PayoutMarker == <<".","e","t","h",".">>

\* Mutant: no destination filter, only the registry check.
should_invoke_unfiltered(lock, destination) == lock.init /\ lock.value.some

\* Lines 341-351: the destination filter, then PAYOUT_SERVICE.get().
should_invoke(lock, destination) ==
    /\ contains(destination, PayoutMarker)
    /\ lock.init
    /\ lock.value.some

\* Mutant: the error arm hands the failure on (as `?` would).
absorb_propagates(result) == IF result.ok THEN "unit" ELSE "error"

\* Lines 353-361: both arms of the match only log; the function returns ().
absorb(result) == "unit"

gas_limit == 100000

hex0x(n) == PFX0x \o lower_hex(n)

\* Mutant: nonce and gas price change places in the params object.
build_tx_swapped(service, data, nonce, gas_price) ==
    [from |-> service.operator_address,
     to |-> service.config.treasury_address,
     gas |-> hex0x(gas_limit),
     gasPrice |-> hex0x(nonce),
     nonce |-> hex0x(gas_price),
     data |-> data]

\* Lines 164-172 and 240-247: the params object of eth_sendTransaction.
build_tx(service, data, nonce, gas_price) ==
    [from |-> service.operator_address,
     to |-> service.config.treasury_address,
     gas |-> hex0x(gas_limit),
     gasPrice |-> hex0x(gas_price),
     nonce |-> hex0x(nonce),
     data |-> data]


(***************************************************************************)
(* Inputs: environments, payout requests, node replies.                    *)
(***************************************************************************)
Tasks == 1..NumTasks
InitProcs == 1..NumInits
\* The startup path calls init_payout_service once.
StartupInits == {1}

RpcUrl == <<"h","t","t","p",":","/","/","n","o","d","e">>
Treasury == PFX0x \o Rep("5", 40)
Chain31337 == <<"3","1","3","3","7">>
U64Overflow == <<"1","8","4","4","6","7","4","4","0","7","3","7","0","9","5","5","1","6","1","6">>

EnvSet ==
    [ETHEREUM_RPC_URL : {NoVar, Var(RpcUrl)},
     TREASURY_ADDRESS : {NoVar, Var(Treasury)},
     OPERATOR_PRIVATE_KEY : {NoVar, Var(PFX0x \o Key1)},
     CHAIN_ID : {NoVar, Var(Chain31337), Var(<<"a","b","c">>), Var(U64Overflow)}]

EnvNames == {"ETHEREUM_RPC_URL", "TREASURY_ADDRESS", "OPERATOR_PRIVATE_KEY", "CHAIN_ID"}

FullEnv ==
    [ETHEREUM_RPC_URL |-> Var(RpcUrl),
     TREASURY_ADDRESS |-> Var(Treasury),
     OPERATOR_PRIVATE_KEY |-> Var(PFX0x \o Key1),
     CHAIN_ID |-> Var(Chain31337)]

StartupEnvs == {FullEnv, [FullEnv EXCEPT !.TREASURY_ADDRESS = NoVar]}

Seg_test == <<"t","e","s","t">>
Seg_receiver == <<"r","e","c","e","i","v","e","r">>
Seg_EURC == <<"E","U","R","C">>
Seg_token == <<"a","b","c","1","2","3">>

DestGood == Join(<<Seg_test, Seg_receiver, ETH, Chain31337, Seg_EURC, Addr1, Seg_token>>, DOT)
DestMismatch == Join(<<Seg_test, Seg_receiver, ETH, <<"1">>, Seg_EURC, Addr1, Seg_token>>, DOT)
DestNoMarker == Join(<<Seg_test, <<"s","e","n","d","e","r">>, <<"u","s","e","r">>>>, DOT)
DestShort == Join(<<<<"t","o","o">>, ETH, <<"s","h","o","r","t">>>>, DOT)
DestMarkerFirst == Join(<<ETH, Chain31337, Seg_EURC, Addr1, Seg_token, Seg_token, Seg_token>>, DOT)

\* (destination, amount, sequence) of a maybe_execute_payout call.
Requests ==
    {<<DestGood, 1, 1>>, <<DestGood, 2, 1>>, <<DestGood, 1, 2>>,
     <<DestMismatch, 1, 1>>, <<DestNoMarker, 1, 1>>, <<DestShort, 1, 1>>,
     <<DestMarkerFirst, 1, 1>>}

PayoutRequests == {<<DestGood, 1, 1>>, <<DestGood, 2, 1>>, <<DestGood, 1, 2>>}

\* What the node may answer to eth_getTransactionCount / eth_gasPrice when the
\* true value is n: no answer, no result, a result that is not hex, the value.
ValueReplies(n) ==
    {Transport, Json(JNull, NoError), Json(JStr(<<"0","x","z","z">>), NoError),
     Json(JStr(hex0x(n)), NoError)}

AnsweredOrLost(n) == {Transport, Json(JStr(hex0x(n)), NoError)}

DuplicateRevert == <<"e","x","e","c","u","t","i","o","n"," ","r","e","v","e","r","t","e","d",":"," ","a","l","r","e","a","d","y"," ","p","r","o","c","e","s","s","e","d">>
OtherRevert == <<"e","x","e","c","u","t","i","o","n"," ","r","e","v","e","r","t","e","d",":"," ","i","n","s","u","f","f","i","c","i","e","n","t"," ","b","a","l","a","n","c","e">>
NonceTooLow == <<"n","o","n","c","e"," ","t","o","o"," ","l","o","w">>
KnownTx == <<"t","x"," ","a","l","r","e","a","d","y"," ","p","r","o","c","e","s","s","e","d">>
Capitalised == <<"R","e","v","e","r","t","e","d">>

\* Rejections of a submit that do not come from a duplicate payment id: a
\* contract revert of another cause, a node-level error, an error without text.
Rejections ==
    {[message |-> JStr(OtherRevert), cause |-> "contract_other"],
     [message |-> JStr(NonceTooLow), cause |-> "node"],
     [message |-> JStr(KnownTx), cause |-> "node"],
     [message |-> JStr(Capitalised), cause |-> "node"],
     [message |-> JNull, cause |-> "node"]}

\* How a submit can go: the request is lost; the node executes the call and
\* answers, or its answer is lost or carries neither result nor error; the node
\* or the contract rejects the call.
SubmitOutcomes ==
    {[kind |-> k, reject |-> [message |-> JNull, cause |-> "none"]] :
        k \in {"request_lost", "executed", "reply_lost", "reply_malformed"}}
    \cup {[kind |-> "rejected", reject |-> r] : r \in Rejections}

ExecutedOrLost == {o \in SubmitOutcomes : o.kind \in {"request_lost", "executed", "reply_lost"}}

(***************************************************************************)
(* State                                                                   *)
(***************************************************************************)
NoData == [selector |-> <<>>]
NoTx == [from |-> <<>>]
NotInvoked == [ok |-> FALSE, err |-> "not invoked"]

IdleTask ==
    [pc |-> "idle", destination |-> <<>>, amount |-> 0, sequence |-> 0,
     nonce |-> 0, gas_price |-> 0, tx |-> NoTx, rpcs |-> <<>>, account |-> <<>>,
     reply |-> Transport, cause |-> "none", exec |-> NotInvoked, ret |-> "pending"]

IdleInit == [pc |-> "idle", value |-> None, read |-> FullEnv]

InitNode == [txCount |-> 0, gasPrice |-> 7, payouts |-> {}]

NotDecoded == [decoded |-> FALSE]
NoInput == [prefix |-> <<>>, middle |-> <<>>, trailer |-> <<>>]

InitWith(e, d, n) ==
    /\ env = e
    /\ envChanges = 0
    /\ PAYOUT_SERVICE = Unset
    /\ inits = [p \in InitProcs |-> IdleInit]
    /\ setBy = 0
    /\ tasks = [t \in Tasks |-> IdleTask]
    /\ node = n
    /\ decIn = d
    /\ decOut = NotDecoded

Init == \E e \in StartupEnvs : InitWith(e, NoInput, InitNode)

(***************************************************************************)
(* init_payout_service                                                     *)
(***************************************************************************)
\* Lines 321-323: read the environment and construct the service, if any.
InitBuild(p) ==
    /\ inits[p].pc = "idle"
    /\ inits' = [inits EXCEPT ![p] = [pc |-> "built", value |-> init_value(env), read |-> env]]
    /\ UNCHANGED <<env, envChanges, PAYOUT_SERVICE, setBy, tasks, node, decIn, decOut>>

\* Lines 324, 329, 334: PAYOUT_SERVICE.set(value), its result dropped.
InitSet(p) ==
    /\ inits[p].pc = "built"
    /\ PAYOUT_SERVICE' = once_set(PAYOUT_SERVICE, inits[p].value)
    /\ setBy' = IF PAYOUT_SERVICE.init THEN setBy ELSE p
    /\ inits' = [inits EXCEPT ![p].pc = "done"]
    /\ UNCHANGED <<env, envChanges, tasks, node, decIn, decOut>>

\* The environment changes under the process (between initialization attempts).
SetEnv(name, v) ==
    /\ envChanges < MaxEnvChanges
    /\ env[name] # v
    /\ env' = [env EXCEPT ![name] = v]
    /\ envChanges' = envChanges + 1
    /\ UNCHANGED <<PAYOUT_SERVICE, inits, setBy, tasks, node, decIn, decOut>>

(***************************************************************************)
(* maybe_execute_payout / execute_payout, one action per suspension point  *)
(***************************************************************************)
\* execute_payout has returned `result`: its locals are gone, and
\* maybe_execute_payout returns to the payment protocol.
Finish(task, result) ==
    [task EXCEPT !.pc = "returned", !.nonce = 0, !.gas_price = 0, !.tx = NoTx,
                 !.exec = result, !.ret = absorb(result)]

\* Line 187: params[0] of eth_getTransactionCount, the account whose pending
\* transaction count is asked for.
nonce_account(service) == service.operator_address

\* Mutant: a chain id other than the expected one ends the call with an error.
MaybeExecutePayoutChainChecked(t, req) ==
    LET destination == req[1]
        called == [tasks[t] EXCEPT !.destination = destination,
                                   !.amount = req[2], !.sequence = req[3]]
        eth_dest == parse(destination)
    IN  /\ tasks[t].pc = "idle"
        /\ tasks' = [tasks EXCEPT ![t] =
              IF ~should_invoke(PAYOUT_SERVICE, destination)
              THEN [called EXCEPT !.pc = "returned", !.ret = "unit"]
              ELSE IF ~eth_dest.some
              THEN Finish(called, Err("Failed to parse Ethereum destination"))
              ELSE IF eth_dest.chain_id # PAYOUT_SERVICE.value.service.config.expected_chain_id
              THEN Finish(called, Err("Chain ID mismatch"))
              ELSE [called EXCEPT !.pc = "await_nonce",
                                  !.rpcs = <<"eth_getTransactionCount">>,
                                  !.account = nonce_account(PAYOUT_SERVICE.value.service)]]
        /\ UNCHANGED <<env, envChanges, PAYOUT_SERVICE, inits, setBy, node, decIn, decOut>>

\* Lines 339-353 and 121-157: the call runs up to the first await.
MaybeExecutePayout(t, req) ==
    LET destination == req[1]
        amount == req[2]
        sequence == req[3]
        called == [tasks[t] EXCEPT !.destination = destination,
                                   !.amount = amount, !.sequence = sequence]
        eth_dest == parse(destination)
    IN  /\ tasks[t].pc = "idle"
        /\ tasks' = [tasks EXCEPT ![t] =
              IF ~should_invoke(PAYOUT_SERVICE, destination)
              THEN [called EXCEPT !.pc = "returned", !.ret = "unit"]
              ELSE IF ~eth_dest.some
              THEN Finish(called, Err("Failed to parse Ethereum destination"))
              ELSE [called EXCEPT !.pc = "await_nonce",
                                  !.rpcs = <<"eth_getTransactionCount">>,
                                  !.account = nonce_account(PAYOUT_SERVICE.value.service)]]
        /\ UNCHANGED <<env, envChanges, PAYOUT_SERVICE, inits, setBy, node, decIn, decOut>>

\* Mutant: the service reserves nonces; the value of the reply is raised by
\* the number of other invocations holding a nonce they have not yet used up.
NonceResponseReserved(t, response) ==
    LET nonce == get_nonce(response)
        held == Cardinality({u \in DOMAIN tasks :
                    u # t /\ tasks[u].pc \in {"await_gas", "await_send"}})
    IN  /\ tasks[t].pc = "await_nonce"
        /\ tasks' = [tasks EXCEPT ![t] =
              IF ~nonce.ok THEN Finish(tasks[t], nonce)
              ELSE [tasks[t] EXCEPT !.pc = "await_gas", !.nonce = nonce.val + held,
                                    !.rpcs = Append(@, "eth_gasPrice")]]
        /\ UNCHANGED <<env, envChanges, PAYOUT_SERVICE, inits, setBy, node, decIn, decOut>>

\* Lines 157-159: the nonce response arrives; on success eth_gasPrice is sent.
NonceResponse(t, response) ==
    LET nonce == get_nonce(response)
    IN  /\ tasks[t].pc = "await_nonce"
        /\ tasks' = [tasks EXCEPT ![t] =
              IF ~nonce.ok THEN Finish(tasks[t], nonce)
              ELSE [tasks[t] EXCEPT !.pc = "await_gas", !.nonce = nonce.val,
                                    !.rpcs = Append(@, "eth_gasPrice")]]
        /\ UNCHANGED <<env, envChanges, PAYOUT_SERVICE, inits, setBy, node, decIn, decOut>>

\* Mutant: the payment id keyed by the amount instead of the sequence number.
call_data_keyed_by_amount(task) ==
    encode_call_data(generate_payment_id(task.destination, task.amount),
                     parse(task.destination).recipient, task.amount)

\* The call data of lines 131-155 for a task's request.
call_data(task) ==
    encode_call_data(generate_payment_id(task.destination, task.sequence),
                     parse(task.destination).recipient, task.amount)

\* Lines 159-173: the gas price arrives; on success eth_sendTransaction is sent.
GasResponse(t, response) ==
    LET gas_price == get_gas_price(response)
        service == PAYOUT_SERVICE.value.service
        tx == build_tx(service, call_data(tasks[t]), tasks[t].nonce, gas_price.val)
    IN  /\ tasks[t].pc = "await_gas"
        /\ tasks' = [tasks EXCEPT ![t] =
              IF ~gas_price.ok THEN Finish(tasks[t], gas_price)
              ELSE [tasks[t] EXCEPT !.pc = "await_send", !.gas_price = gas_price.val,
                                    !.tx = tx,
                                    !.rpcs = Append(@, "eth_sendTransaction")]]
        /\ UNCHANGED <<env, envChanges, PAYOUT_SERVICE, inits, setBy, node, decIn, decOut>>


\* The treasury contract behind the node: payoutToUser(paymentId, recipient,
\* amount) pays once per payment id and reverts on a payment id already paid.
TxHash == PFX0x \o Rep("9", 64)

Paid(n) == {p.payment_id : p \in n.payouts}

payoutToUser(n, t, tx) ==
    IF tx.data.payment_id \in Paid(n)
    THEN [node |-> n,
          reply |-> Json(JNull, ErrorObj(JStr(DuplicateRevert))),
          cause |-> "duplicate"]
    ELSE [node |-> [n EXCEPT !.payouts = @ \cup {[task |-> t,
                                                  payment_id |-> tx.data.payment_id,
                                                  recipient |-> tx.data.recipient_slot,
                                                  amount |-> tx.data.amount_slot]},
                             !.txCount = @ + 1],
          reply |-> Json(JStr(TxHash), NoError),
          cause |-> "none"]

\* Lines 165-177 and 250-270: the submit is answered (or not) and
\* execute_payout returns; maybe_execute_payout logs and returns.
SendResponse(t, o) ==
    LET run == payoutToUser(node, t, tasks[t].tx)
        executed == o.kind \in {"executed", "reply_lost", "reply_malformed"}
        response == CASE o.kind = "request_lost" -> Transport
                      [] o.kind = "executed" -> run.reply
                      [] o.kind = "reply_lost" -> Transport
                      [] o.kind = "reply_malformed" -> Json(JNull, NoError)
                      [] o.kind = "rejected" -> Json(JNull, ErrorObj(o.reject.message))
        cause == IF executed THEN run.cause ELSE o.reject.cause
    IN  /\ tasks[t].pc = "await_send"
        /\ node' = IF executed THEN run.node ELSE node
        /\ tasks' = [tasks EXCEPT ![t] =
              Finish([tasks[t] EXCEPT !.reply = response, !.cause = cause],
                     send_raw_transaction(response))]
        /\ UNCHANGED <<env, envChanges, PAYOUT_SERVICE, inits, setBy, decIn, decOut>>

(***************************************************************************)
(* The payout system: one startup initialization, concurrent payouts.      *)
(***************************************************************************)
\* Concurrent invocations: payout requests, each RPC answered or lost.
Next ==
    \/ \E p \in StartupInits : InitBuild(p)
    \/ \E p \in StartupInits : InitSet(p)
    \/ \E t \in Tasks, req \in PayoutRequests : MaybeExecutePayout(t, req)
    \/ \E t \in Tasks : \E response \in AnsweredOrLost(node.txCount) : NonceResponse(t, response)
    \/ \E t \in Tasks : \E response \in AnsweredOrLost(node.gasPrice) : GasResponse(t, response)
    \/ \E t \in Tasks, o \in ExecutedOrLost : SendResponse(t, o)

Spec == Init /\ [][Next]_vars

\* One invocation, over every request and every reply of the node.
Caller == {1}

NextOne ==
    \/ \E p \in StartupInits : InitBuild(p)
    \/ \E p \in StartupInits : InitSet(p)
    \/ \E t \in Caller, req \in Requests : MaybeExecutePayout(t, req)
    \/ \E t \in Caller : \E response \in ValueReplies(node.txCount) : NonceResponse(t, response)
    \/ \E t \in Caller : \E response \in ValueReplies(node.gasPrice) : GasResponse(t, response)
    \/ \E t \in Caller, o \in SubmitOutcomes : SendResponse(t, o)

\* The ledger outlives the process: it may already hold the payout of an
\* earlier run for the same destination and sequence number.
PaidBefore ==
    [txCount |-> 1, gasPrice |-> 7,
     payouts |-> {[task |-> 0,
                   payment_id |-> generate_payment_id(DestGood, 1),
                   recipient |-> pad_left_zero(trim_start_matches(Addr1, PFX0x), SlotWidth),
                   amount |-> pad_left_zero(lower_hex(1), SlotWidth)]}]

InitOne == \E e \in StartupEnvs : \E n \in {InitNode, PaidBefore} : InitWith(e, NoInput, n)

SpecOne == InitOne /\ [][NextOne]_vars

(***************************************************************************)
(* The registry alone: concurrent and repeated initialization attempts,    *)
(* over every environment, with the environment changing in between.       *)
(***************************************************************************)
InitRegistry == \E e \in EnvSet : InitWith(e, NoInput, InitNode)

NextRegistry ==
    \/ \E p \in InitProcs : InitBuild(p)
    \/ \E p \in InitProcs : InitSet(p)
    \/ \E name \in EnvNames : \E e \in EnvSet : SetEnv(name, e[name])

SpecRegistry == InitRegistry /\ [][NextRegistry]_vars

(***************************************************************************)
(* The decoder alone, over destinations assembled from segments.           *)
(***************************************************************************)
SeqsUpTo(S, n) == UNION {[1..k -> S] : k \in 0..n}

U64Max == <<"1","8","4","4","6","7","4","4","0","7","3","7","0","9","5","5","1","6","1","5">>

ChainSegs ==
    {Chain31337, <<"0","0","7">>, <<"+","1">>, <<>>, <<"x","1">>, U64Max, U64Overflow}
AssetSegs == {Seg_EURC, ETH}
RecipientSegs ==
    {Addr1,
     PFX0x \o Rep("g", 40),
     PFX0x \o PFX0x \o Rep("a", 38),
     PFX0x \o Rep("a", 39),
     Rep("a", 42),
     PFX0x \o Rep(NonAscii, 20)}

Middles ==
    {<<>>} \cup {<<ETH, c, a, r>> : c \in ChainSegs, a \in AssetSegs, r \in RecipientSegs}

DecodeInputs ==
    [prefix : SeqsUpTo({Seg_test, ETH}, MaxPrefix),
     middle : Middles,
     trailer : SeqsUpTo({Seg_token, ETH}, MaxTrailer)]

Segments(d) == d.prefix \o d.middle \o d.trailer
Destination(d) == Join(Segments(d), DOT)

InitDecode == \E d \in DecodeInputs : InitWith(FullEnv, d, InitNode)

Decode ==
    /\ ~decOut.decoded
    /\ decOut' = [decoded |-> TRUE, out |-> parse(Destination(decIn))]
    /\ UNCHANGED <<env, envChanges, PAYOUT_SERVICE, inits, setBy, tasks, node, decIn>>

NextDecode == Decode

SpecDecode == InitDecode /\ [][NextDecode]_vars


(***************************************************************************)
(* Properties                                                              *)
(***************************************************************************)
Ready == RegistryState(PAYOUT_SERVICE) = "Ready"

\* Dot-separated segments of a string, counted on the string itself.
NumSegments(str) == Cardinality({i \in 1..Len(str) : str[i] = DOT}) + 1

\* C1: maybe_execute_payout never hands a failure to its caller: whatever the
\* destination, the registry state and the outcome of the RPC calls, an
\* invocation that has ended has ended by returning () ("unit"), and one that has
\* not ended has handed nothing back.
C1_NeverPropagates ==
    \A t \in Tasks :
        /\ tasks[t].ret \in {"pending", "unit"}
        /\ (tasks[t].pc = "returned") <=> (tasks[t].ret = "unit")

\* C1 witness: execute_payout failed at the submit with an RPC error, and the
\* call still returned normally.
C1_Witness ==
    \E t \in Tasks :
        /\ tasks[t].pc = "returned"
        /\ tasks[t].rpcs = <<"eth_getTransactionCount", "eth_gasPrice", "eth_sendTransaction">>
        /\ tasks[t].exec = Err("RPC error")
        /\ tasks[t].ret = "unit"

\* C2: against a ledger that rejects a payment id already paid, no two payouts
\* on the ledger stem from the same (destination, sequence), whatever the
\* amounts and the interleaving; and an invocation whose submit the ledger
\* rejected as a duplicate, and which got the answer, ends with the
\* "already_processed" outcome.
C2_AtMostOnePayout ==
    /\ \A p, q \in node.payouts :
          (/\ tasks[p.task].destination = tasks[q.task].destination
           /\ tasks[p.task].sequence = tasks[q.task].sequence) => p = q
    /\ \A t \in Tasks :
          (tasks[t].pc = "returned" /\ tasks[t].cause = "duplicate" /\ tasks[t].reply.http)
              => tasks[t].exec = Ok(already_processed)

\* C2 witness: two invocations with the same destination and sequence number but
\* different amounts have both ended; one was paid, the other ended with
\* "already_processed", and the ledger holds one payout.
C2_Witness ==
    \E t, u \in Tasks :
        /\ tasks[t].pc = "returned" /\ tasks[u].pc = "returned"
        /\ tasks[t].destination = tasks[u].destination
        /\ tasks[t].sequence = tasks[u].sequence
        /\ tasks[t].amount # tasks[u].amount
        /\ tasks[t].exec = Ok(TxHash)
        /\ tasks[u].exec = Ok(already_processed)
        /\ Cardinality(node.payouts) = 1

\* C3: once the registry has left Uninitialized, no step changes PAYOUT_SERVICE
\* again: every later or concurrent init_payout_service leaves the state and
\* the held service as the first set() fixed them.
C3_SetOnce == [][PAYOUT_SERVICE.init => PAYOUT_SERVICE' = PAYOUT_SERVICE]_vars

\* C3 witness: an initialization that built another value (from a changed
\* environment) has completed after the first one, and the registry still holds
\* the first value.
C3_Witness ==
    /\ PAYOUT_SERVICE.init
    /\ \E p \in InitProcs :
          /\ p # setBy
          /\ inits[p].pc = "done"
          /\ inits[p].value # PAYOUT_SERVICE.value
          /\ inits[setBy].value = PAYOUT_SERVICE.value

\* C4: after the first init_payout_service has completed, the registry is Ready
\* if and only if the environment it read held all four values with a CHAIN_ID
\* that parses as a u64; otherwise it is Disabled and holds no service.
C4_ReadyIffFullConfig ==
    PAYOUT_SERVICE.init =>
        LET e == inits[setBy].read
            complete == /\ e.ETHEREUM_RPC_URL.set
                        /\ e.TREASURY_ADDRESS.set
                        /\ e.OPERATOR_PRIVATE_KEY.set
                        /\ e.CHAIN_ID.set
                        /\ parse_u64(e.CHAIN_ID.val).ok
        IN  /\ Ready <=> complete
            /\ ~complete => (RegistryState(PAYOUT_SERVICE) = "Disabled"
                             /\ PAYOUT_SERVICE.value = None)
            /\ complete => PAYOUT_SERVICE.value.service.config.treasury_address
                               = e.TREASURY_ADDRESS.val

\* C4 witness: all four variables were set, but CHAIN_ID overflows a u64, and the
\* registry is Disabled.
C4_Witness ==
    /\ PAYOUT_SERVICE.init
    /\ RegistryState(PAYOUT_SERVICE) = "Disabled"
    /\ \A name \in EnvNames : inits[setBy].read[name].set
    /\ inits[setBy].read.CHAIN_ID.val = U64Overflow

\* C5: an invocation has issued an RPC call only if the registry is Ready and
\* its destination contains ".eth."; and a call made while the registry is
\* Uninitialized or Disabled, or with a destination lacking ".eth.", returns in
\* that same step with no RPC request issued.
C5_NoRpcUnlessReadyAndMarked ==
    /\ [](\A t \in Tasks :
            tasks[t].rpcs # <<>> => (Ready /\ contains(tasks[t].destination, PayoutMarker)))
    /\ [][\A t \in Tasks :
            (/\ tasks[t].pc = "idle"
             /\ tasks'[t].pc # "idle"
             /\ ~(Ready /\ contains(tasks'[t].destination, PayoutMarker)))
                => (tasks'[t].pc = "returned" /\ tasks'[t].rpcs = <<>>)]_vars

\* C5 witness: a call with a destination that the decoder accepts but that
\* lacks ".eth." has returned, the registry being Ready, without any RPC.
C5_Witness ==
    \E t \in Tasks :
        /\ tasks[t].pc = "returned"
        /\ Ready
        /\ tasks[t].destination = DestMarkerFirst
        /\ tasks[t].rpcs = <<>>

\* C6: when the submit response carries an error object, execute_payout returns
\* Ok("already_processed") if the message contains "already processed" or
\* "revert", and an RPC error for every other message, a missing message
\* included.
C6_ErrorObjectOutcome ==
    \A t \in Tasks :
        (tasks[t].pc = "returned" /\ tasks[t].reply.http /\ tasks[t].reply.error.present)
            => LET m == tasks[t].reply.error.message
               IN  IF m.is_str /\ (\/ contains(m.str, AlreadyProcessedText)
                                   \/ contains(m.str, RevertText))
                   THEN tasks[t].exec = Ok(already_processed)
                   ELSE tasks[t].exec = Err("RPC error")

\* C6 witness: the ledger answered "execution reverted: already processed" and
\* the invocation ended with "already_processed".
C6_Witness ==
    \E t \in Tasks :
        /\ tasks[t].pc = "returned"
        /\ tasks[t].reply = Json(JNull, ErrorObj(JStr(DuplicateRevert)))
        /\ tasks[t].exec = Ok(already_processed)

\* C7 (violated by the code): a submit rejected by a contract revert whose cause
\* is not a duplicate payment id makes execute_payout return an error, not the
\* "already_processed" success outcome.
C7_OtherRevertIsError ==
    \A t \in Tasks :
        (tasks[t].pc = "returned" /\ tasks[t].cause = "contract_other") => ~tasks[t].exec.ok

IsDecimalU64(n) ==
    /\ n # <<>>
    /\ \A i \in 1..Len(n) : n[i] \in DecDigits
    /\ ~NumeralGt(StripZeros(n), U64Max)

IsHexAddress(r) ==
    /\ Len(r) = 42
    /\ SubSeq(r, 1, 2) = PFX0x
    /\ \A i \in 3..42 : r[i] \in HexDigits

\* <a>.<b>.eth.<n>.<code>.0x<40hex>.<trailer>
WellFormed(d) ==
    /\ Len(d.prefix) = 2
    /\ d.middle # <<>>
    /\ IsDecimalU64(d.middle[2])
    /\ IsHexAddress(d.middle[4])
    /\ Len(d.trailer) >= 1

Expected(d) ==
    [some |-> TRUE, chain_id |-> StripZeros(d.middle[2]),
     asset_code |-> d.middle[3], recipient |-> d.middle[4]]

\* C8 (violated by the code): every well-formed destination
\* <a>.<b>.eth.<n>.<code>.0x<40hex>.<trailer>, for all prefix segments a and b,
\* decodes to exactly chainId n, assetCode code and the recipient.
C8_WellFormedDecodes ==
    (decOut.decoded /\ WellFormed(decIn)) => decOut.out = Expected(decIn)

\* The same with no prefix segment equal to the marker: this the code does.
C8_UnlessMarkerInPrefix ==
    (decOut.decoded /\ WellFormed(decIn) /\ \A i \in 1..Len(decIn.prefix) : decIn.prefix[i] # ETH)
        => decOut.out = Expected(decIn)

\* C9: a destination with fewer than 7 dot-separated segments decodes to no
\* instruction, whatever its segments are.
C9_ShortDecodesToNone ==
    (decOut.decoded /\ NumSegments(Destination(decIn)) < 7) => decOut.out = None

\* C9 witness: six segments with a valid marker, chain id, asset and recipient
\* were decoded to no instruction.
C9_Witness ==
    /\ decOut.decoded
    /\ Len(decIn.prefix) = 1
    /\ decIn.middle = <<ETH, Chain31337, Seg_EURC, Addr1>>
    /\ decIn.trailer = <<Seg_token>>
    /\ decOut.out = None

C11_RecipientIsHexAddress ==
    (decOut.decoded /\ decOut.out.some) => IsHexAddress(decOut.out.recipient)

(***************************************************************************)
(* One invocation, over service configurations (operator credentials) and  *)
(* over requests whose recipient, chain id, amount and sequence vary.      *)
(***************************************************************************)
Key2Upper == <<"5","D","E","4","1","1","1","A","F","A","1","A","4","B","9","4","9","0","8","F","8","3","1","0","3","E","B","1","F","1","7","0","6","3","6","7","C","2","E","6","8","C","A","8","7","0","F","C","3","F","B","9","A","8","0","4","C","D","A","B","3","6","5","A">>
UnknownKey == Rep("1", 64)

\* OPERATOR_PRIVATE_KEY values: table keys as written, prefixed, upper-cased,
\* doubly prefixed; a key outside the table; the empty string.
Credentials ==
    {Key0, PFX0x \o Key1, Key2Upper, PFX0x \o PFX0x \o Key2, UnknownKey, <<>>}

ServiceEnvs == {[FullEnv EXCEPT !.OPERATOR_PRIVATE_KEY = Var(k)] : k \in Credentials}

DestinationOf(chain, recipient) ==
    Join(<<Seg_test, Seg_receiver, ETH, chain, Seg_EURC, recipient, Seg_token>>, DOT)

ServiceDestinations ==
    {DestinationOf(c, r) : c \in {Chain31337, <<"0","0","7">>}, r \in RecipientSegs}

MaxInt32 == 2147483647
Amounts == {0, 1, 255, MaxInt32}
Sequences == {0, 1, 256}

ServiceRequests == {<<d, a, s>> : d \in ServiceDestinations, a \in Amounts, s \in Sequences}

InitService ==
    \E e \in ServiceEnvs : \E n \in {InitNode, PaidBefore} : InitWith(e, NoInput, n)

NextService ==
    \/ \E p \in StartupInits : InitBuild(p)
    \/ \E p \in StartupInits : InitSet(p)
    \/ \E t \in Caller, req \in ServiceRequests : MaybeExecutePayout(t, req)
    \/ \E t \in Caller : \E response \in AnsweredOrLost(node.txCount) : NonceResponse(t, response)
    \/ \E t \in Caller : \E response \in AnsweredOrLost(node.gasPrice) : GasResponse(t, response)
    \/ \E t \in Caller, o \in ExecutedOrLost : SendResponse(t, o)

SpecService == InitService /\ [][NextService]_vars

IsHex(s) == \A i \in 1..Len(s) : s[i] \in HexDigits

\* Selector of 8 characters, three slots of 64, 200 characters in all.
Shape200(data) ==
    /\ Len(data.selector) = 8
    /\ 2 * DigestBytes = 64
    /\ Len(data.recipient_slot) = 64
    /\ Len(data.amount_slot) = 64
    /\ DataLen(data) = 200

\* C12 (violated by the code): for every destination the decoder accepts, every
\* amount and every sequence number, the call data execute_payout submits is
\* exactly 200 hexadecimal characters, the 8-character selector followed by
\* three 64-character slots.
C12_CallDataIs200Hex ==
    \A t \in Tasks :
        tasks[t].pc = "await_send" =>
            /\ Shape200(tasks[t].tx.data)
            /\ IsHex(tasks[t].tx.data.selector)
            /\ IsHex(tasks[t].tx.data.recipient_slot)
            /\ IsHex(tasks[t].tx.data.amount_slot)

\* The lengths alone: these the code keeps for every accepted destination.
C12_CallDataIs200Characters ==
    \A t \in Tasks : tasks[t].pc = "await_send" => Shape200(tasks[t].tx.data)

\* C18 (violated by the code): for every recipient the decoder accepts, the
\* second slot of the call data is exactly 24 zero characters followed by the
\* 40 characters that follow the recipient's leading 0x prefix.
C18_RecipientSlotPadded ==
    \A t \in Tasks :
        tasks[t].pc = "await_send" =>
            LET recipient == parse(tasks[t].destination).recipient
            IN  /\ Len(recipient) = 42
                /\ tasks[t].tx.data.recipient_slot = Rep("0", 24) \o SubSeq(recipient, 3, 42)

\* The same for recipients that are 0x followed by 40 hex digits: this the
\* code does.
C18_HexRecipientSlotPadded ==
    \A t \in Tasks :
        (tasks[t].pc = "await_send" /\ IsHexAddress(parse(tasks[t].destination).recipient)) =>
            tasks[t].tx.data.recipient_slot
                = Rep("0", 24) \o SubSeq(parse(tasks[t].destination).recipient, 3, 42)

\* The address the claim gives each configured credential: the table address
\* of a table key (written as is, 0x-prefixed or upper-cased), the default
\* address of the first table entry for any other credential.
ExpectedOperator(credential) ==
    CASE credential = Key0 -> Addr0
      [] credential = PFX0x \o Key1 -> Addr1
      [] credential = Key2Upper -> Addr2
      [] credential = PFX0x \o PFX0x \o Key2 -> Addr2
      [] OTHER -> Addr0

\* C13: with a complete configuration, construction never fails whatever the
\* credential (the registry, once set, holds a service); the operator address
\* of the service is the table address of a known key and the default address
\* 0xf39F...2266 of any other credential; and that address is the account of
\* every nonce fetch and the sender of every transaction built later.
C13_OperatorAddress ==
    LET expected == ExpectedOperator(env.OPERATOR_PRIVATE_KEY.val)
    IN  /\ PAYOUT_SERVICE.init =>
              /\ PAYOUT_SERVICE.value.some
              /\ PAYOUT_SERVICE.value.service.operator_address = expected
        /\ \A t \in Tasks :
              /\ tasks[t].rpcs # <<>> => tasks[t].account = expected
              /\ tasks[t].pc = "await_send" => tasks[t].tx.from = expected

\* C13 witness: the credential is in no table entry, and an invocation has
\* fetched the nonce for the default address and built a transaction sent
\* from it.
C13_Witness ==
    /\ env.OPERATOR_PRIVATE_KEY.val = UnknownKey
    /\ \E t \in Tasks :
          /\ tasks[t].pc = "await_send"
          /\ tasks[t].account = Addr0
          /\ tasks[t].tx.from = Addr0

\* Replies that make a fetch fail: no answer, no result, a result that is not
\* valid hex.
FailedFetch ==
    {Transport, Json(JNull, NoError), Json(JStr(<<"0","x","z","z">>), NoError)}

NonceOnly == <<"eth_getTransactionCount">>
NonceThenGas == <<"eth_getTransactionCount", "eth_gasPrice">>
FullSequence == <<"eth_getTransactionCount", "eth_gasPrice", "eth_sendTransaction">>

\* The invocation of t ends in this step with an error, having issued exactly
\* the calls `issued`, and the ledger is untouched.
AbortsWith(t, issued) ==
    /\ tasks'[t].pc = "returned"
    /\ tasks'[t].rpcs = issued
    /\ ~tasks'[t].exec.ok
    /\ tasks'[t].exec # NotInvoked
    /\ node' = node

\* C14: any failed step of execute_payout aborts the sequence. A destination
\* that decodes to no instruction ends the invocation with an error and no RPC
\* call; a failed nonce fetch (no answer, no result, result not hex) ends it
\* with an error after that one call; a failed gas-price fetch ends it with an
\* error after the two fetches; in each case no submit is issued and the
\* ledger is unchanged. An invocation that ended with fewer than the three
\* calls ended with an error.
C14_FailureAborts ==
    /\ [](\A t \in Tasks :
            (tasks[t].pc = "returned" /\ tasks[t].exec # NotInvoked /\ Len(tasks[t].rpcs) < 3)
                => ~tasks[t].exec.ok)
    /\ [][\A t \in Tasks :
            /\ (/\ tasks[t].pc = "idle"
                /\ tasks'[t].pc # "idle"
                /\ Ready
                /\ contains(tasks'[t].destination, PayoutMarker)
                /\ ~parse(tasks'[t].destination).some) => AbortsWith(t, <<>>)
            /\ \A response \in FailedFetch :
                  /\ NonceResponse(t, response) => AbortsWith(t, NonceOnly)
                  /\ GasResponse(t, response) => AbortsWith(t, NonceThenGas)]_vars

\* C14 witness: the nonce fetch succeeded, the gas-price reply was not hex, and
\* the invocation ended with the parse error after two calls and no submit.
C14_Witness ==
    \E t \in Tasks :
        /\ tasks[t].pc = "returned"
        /\ tasks[t].rpcs = NonceThenGas
        /\ tasks[t].exec = Err("ParseIntError")
        /\ node.payouts = {}

\* A successful reply carrying the value n.
Answer(n) == Json(JStr(hex0x(n)), NoError)

\* Values the node of the model can answer with: its transaction count, which
\* grows by one per executed payout, and its gas price.
NodeValues == 0..(NumTasks + 7)

IsPrefix(s, full) == Len(s) <= Len(full) /\ s = SubSeq(full, 1, Len(s))

\* 100000 in hex, as the submit carries it.
GasLimitHex == <<"0","x","1","8","6","a","0">>

\* C15: in every invocation, also with others running concurrently, the RPC
\* calls issued are a prefix of (eth_getTransactionCount, eth_gasPrice,
\* eth_sendTransaction), so each is issued at most once; the gas-price fetch is
\* issued only in the step in which the nonce fetch of the same invocation is
\* answered with a value, the submit only in the step in which its gas-price
\* fetch is answered with a value; and the submit carries that nonce and that
\* gas price, the gas limit 100000, the configured treasury address as target
\* and the operator address as sender.
C15_SequenceAndPayload ==
    /\ [](\A t \in Tasks :
            /\ IsPrefix(tasks[t].rpcs, FullSequence)
            /\ tasks[t].pc = "await_send" =>
                  /\ tasks[t].rpcs = FullSequence
                  /\ tasks[t].tx.nonce = hex0x(tasks[t].nonce)
                  /\ tasks[t].tx.gasPrice = hex0x(tasks[t].gas_price)
                  /\ tasks[t].tx.gas = GasLimitHex
                  /\ tasks[t].tx.to = Treasury
                  /\ tasks[t].tx.from = Addr1)
    /\ [][\A t \in Tasks :
            /\ tasks'[t].rpcs # tasks[t].rpcs =>
                  \/ tasks[t].pc = "idle" /\ tasks'[t].rpcs = NonceOnly
                  \/ /\ tasks[t].rpcs = NonceOnly
                     /\ tasks'[t].rpcs = NonceThenGas
                     /\ \E n \in NodeValues :
                           NonceResponse(t, Answer(n)) /\ tasks'[t].nonce = n
                  \/ /\ tasks[t].rpcs = NonceThenGas
                     /\ tasks'[t].rpcs = FullSequence
                     /\ \E g \in NodeValues :
                           /\ GasResponse(t, Answer(g))
                           /\ tasks'[t].gas_price = g
                           /\ tasks'[t].nonce = tasks[t].nonce
            /\ tasks[t].pc \in {"await_gas", "await_send"} /\ tasks'[t].pc # "returned"
                  => tasks'[t].nonce = tasks[t].nonce
            /\ tasks[t].pc = "await_send" /\ tasks'[t].pc # "returned"
                  => tasks'[t].tx = tasks[t].tx]_vars

\* C15 witness: two invocations overlap; the second fetched its nonce after
\* the first payout was executed, and its submit carries that nonce 1 and the
\* gas price 7.
C15_Witness ==
    \E t, u \in Tasks :
        /\ t # u
        /\ tasks[u].pc = "returned" /\ tasks[u].exec = Ok(TxHash)
        /\ tasks[t].pc = "await_send"
        /\ tasks[t].tx.nonce = <<"0","x","1">>
        /\ tasks[t].tx.gasPrice = <<"0","x","7">>

\* The destination of t decodes, to a chain id other than the configured one.
ChainMismatch(task) ==
    /\ Ready
    /\ parse(task.destination).some
    /\ parse(task.destination).chain_id
          # PAYOUT_SERVICE.value.service.config.expected_chain_id

\* C16: a chain-id mismatch never aborts a payout. A call with a decodable
\* destination (containing ".eth.") whose chain id differs from the expected
\* one issues the nonce fetch; answered with a value it issues the gas-price
\* fetch; answered with a value it issues the submit, whose target is the
\* configured treasury address and whose other fields are those of line
\* 240-247, as for a matching chain id.
C16_MismatchProceeds ==
    /\ [](\A t \in Tasks :
            tasks[t].pc = "await_send" =>
                /\ tasks[t].rpcs = FullSequence
                /\ tasks[t].tx.to = Treasury
                /\ tasks[t].tx.gas = GasLimitHex)
    /\ [][\A t \in Tasks :
            ChainMismatch(tasks'[t]) =>
                /\ (/\ tasks[t].pc = "idle"
                    /\ tasks'[t].pc # "idle"
                    /\ contains(tasks'[t].destination, PayoutMarker))
                        => (tasks'[t].pc = "await_nonce" /\ tasks'[t].rpcs = NonceOnly)
                /\ \A n \in NodeValues :
                      /\ NonceResponse(t, Answer(n))
                            => (tasks'[t].pc = "await_gas" /\ tasks'[t].rpcs = NonceThenGas)
                      /\ GasResponse(t, Answer(n))
                            => (/\ tasks'[t].pc = "await_send"
                                /\ tasks'[t].rpcs = FullSequence
                                /\ tasks'[t].tx.to = Treasury)]_vars

\* C16 witness: a payout for chain id 7, the service expecting 31337, was
\* submitted and executed on the ledger.
C16_Witness ==
    \E t \in Tasks :
        /\ ChainMismatch(tasks[t])
        /\ parse(tasks[t].destination).chain_id = <<"7">>
        /\ tasks[t].pc = "returned"
        /\ tasks[t].rpcs = FullSequence
        /\ tasks[t].exec = Ok(TxHash)
        /\ \E p \in node.payouts : p.task = t

\* C17: invocations are not serialised on the nonce. Whatever the other
\* invocations hold, an invocation whose nonce fetch is answered with the value
\* n goes on with exactly n, with no reservation or adjustment for nonces
\* fetched by others and not yet used; so (the witness) two invocations with
\* different sequence numbers can both fetch the same nonce and both submit a
\* transaction carrying it.
C17_NonceTakenAsAnswered ==
    [][\A t \in Tasks : \A n \in NodeValues :
          NonceResponse(t, Answer(n)) =>
              (tasks'[t].pc = "await_gas" /\ tasks'[t].nonce = n)]_vars

\* C17 witness: two invocations with different sequence numbers have both
\* issued their submit, and the two transactions carry the same nonce.
C17_Witness ==
    \E t, u \in Tasks :
        /\ t # u
        /\ tasks[t].sequence # tasks[u].sequence
        /\ tasks[t].pc = "await_send" /\ tasks[u].pc = "await_send"
        /\ tasks[t].rpcs = FullSequence /\ tasks[u].rpcs = FullSequence
        /\ tasks[t].nonce = tasks[u].nonce
        /\ tasks[t].tx.nonce = tasks[u].tx.nonce
        /\ tasks[t].tx.data.payment_id # tasks[u].tx.data.payment_id

\* C19 (violated by the code): with the registry Ready, every call whose
\* destination the decoder accepts makes maybe_execute_payout invoke
\* execute_payout and issue the first RPC call; the ".eth." filter rejects no
\* destination the decoder accepts.
C19_FilterAdmitsDecodable ==
    [][\A t \in Tasks :
          (/\ tasks[t].pc = "idle"
           /\ tasks'[t].pc # "idle"
           /\ Ready
           /\ parse(tasks'[t].destination).some)
              => (tasks'[t].pc = "await_nonce" /\ tasks'[t].rpcs = NonceOnly)]_vars

\* The same for destinations whose marker is not the first segment: this the
\* code does.
C19_UnlessMarkerFirst ==
    [][\A t \in Tasks :
          (/\ tasks[t].pc = "idle"
           /\ tasks'[t].pc # "idle"
           /\ Ready
           /\ parse(tasks'[t].destination).some
           /\ find_marker(split(tasks'[t].destination, DOT)) # 0)
              => (tasks'[t].pc = "await_nonce" /\ tasks'[t].rpcs = NonceOnly)]_vars

\* (destination, sequence) pairs a hashed input is compared against.
Probes == ServiceDestinations \X Sequences

\* The bytes execute_payout hashed for the transaction it built.
HashedInput(task) == task.tx.data.payment_id.sha256

\* C20: the byte string hashed into the payment id is the destination bytes
\* followed by the 8-byte big-endian sequence number, whatever the amount, the
\* nonce, the gas price and the service; and it is injective: it equals the
\* hashed input of a (destination, sequence) pair exactly when the pair is the
\* request's own destination and sequence number.
C20_HashedInputInjective ==
    \A t \in Tasks :
        tasks[t].pc = "await_send" =>
            /\ HashedInput(tasks[t])
                  = as_bytes(tasks[t].destination) \o be_bytes(tasks[t].sequence, 8)
            /\ Len(HashedInput(tasks[t])) = ByteLen(tasks[t].destination) + 8
            /\ \A q \in Probes :
                  (as_bytes(q[1]) \o to_be_bytes(q[2]) = HashedInput(tasks[t]))
                      <=> (q[1] = tasks[t].destination /\ q[2] = tasks[t].sequence)

\* C20 witness: a request with sequence number 256 and the largest amount of
\* the model was hashed; its input ends with the bytes 0 0 0 0 0 0 1 0 and is
\* the input of that pair alone.
C20_Witness ==
    \E t \in Tasks :
        /\ tasks[t].pc = "await_send"
        /\ tasks[t].sequence = 256
        /\ tasks[t].amount = MaxInt32
        /\ tasks[t].nonce = 1
        /\ LET h == HashedInput(tasks[t])
           IN  /\ SubSeq(h, Len(h) - 7, Len(h)) = <<0, 0, 0, 0, 0, 0, 1, 0>>
               /\ Cardinality({q \in Probes : as_bytes(q[1]) \o to_be_bytes(q[2]) = h}) = 1

====
